---- MODULE Spec2Model ----
(***************************************************************************)
(* Webhook event ingestion and subscription-state reconciliation of the    *)
(* step-by-step-stripe application: POST /api/webhooks/stripe, the         *)
(* subscription sync utility (forceSyncUserSubscription), the pages that   *)
(* call it, and POST /api/checkout.                                        *)
(*                                                                         *)
(* Every await of a handler is one step, so that deliveries, page-load     *)
(* syncs and provider-side changes interleave at the points where the      *)
(* program can be suspended.                                               *)
(***************************************************************************)
EXTENDS Integers, Sequences, FiniteSets, Bags, TLC

VARIABLES profiles, ledger, subs, slots, sync, completed, delivered, synced, changes,
          plan, checkout

vars == <<profiles, ledger, subs, slots, sync, completed, delivered, synced, changes,
         plan, checkout>>

----------------------------------------------------------------------------
(* Bounds of the model *)

MaxDeliveries == 2
MaxSubs == 3
MaxReconcileDeliveries == 1
MaxSyncs == 1
MaxRaceDeliveries == 2
MaxRaceSubs == 1
MaxProviderChanges == 1
MaxPriceIds == 3
MaxLinkDeliveries == 2
MaxLinkSubs == 1
MaxRecordDeliveries == 2
MaxTwiceDeliveries == 2
MaxTieSubs == 2
MaxCheckouts == 2
MaxCheckoutSubs == 2
MaxCleanups == 2
MaxCleanupSubs == 2
MaxPageLoads == 2
MaxPageSubs == 2

----------------------------------------------------------------------------
(* Values *)

NULL == "null"
NoTime == -1

Users == {"u_1", "u_2"}
Customers == {"cus_1", "cus_2"}
Slots == {1, 2}

PRICE_ID_BABY == "price_baby"
PRICE_ID_PREMIUM == "price_premium"
PRICE_ID_PRO == "price_pro"
PRICE_ID_OTHER == "price_other"

ListLimit == 10

Sub(id, status, price, periodEnd, created) ==
  [id |-> id, status |-> status, price |-> price,
   current_period_end |-> periodEnd, created |-> created]

NoSub == Sub(NULL, NULL, NULL, 0, 0)

\* The subscriptions the provider may hold for a customer.
SubPool(c) ==
  IF c = "cus_1"
    THEN {Sub("sub_b", "active", PRICE_ID_BABY, 100, 1),
          Sub("sub_m", "active", PRICE_ID_PREMIUM, 200, 2),
          Sub("sub_p", "active", PRICE_ID_PRO, 300, 3),
          Sub("sub_t", "trialing", PRICE_ID_PREMIUM, 400, 4)}
    ELSE {Sub("sub_2", "active", PRICE_ID_BABY, 600, 6)}

Range(s) == {s[i] : i \in DOMAIN s}

\* The lists of distinct subscriptions of a pool, in any order
ListsOver(pool, max) ==
  {s \in UNION {[1..n -> pool] : n \in 0..max} :
     \A i, j \in DOMAIN s : i # j => s[i].id # s[j].id}

\* A provider-side list of a customer: distinct subscriptions of its pool.
ProviderLists(c, max) == ListsOver(SubPool(c), max)

\* Subscriptions of cus_1 of which two are on the same price, created at different
\* times, and one carries no price
TiePool ==
  {Sub("sub_b", "active", PRICE_ID_BABY, 100, 1),
   Sub("sub_m", "active", PRICE_ID_PREMIUM, 200, 2),
   Sub("sub_n", "active", PRICE_ID_PREMIUM, 500, 5),
   Sub("sub_z", "active", NULL, 800, 8)}

\* metadata.supabase_user_id of the provider customer
CustomerMetadata(c) == IF c = "cus_1" THEN "u_1" ELSE NULL

Event(id, type, customer, mode, sub) ==
  [id |-> id, type |-> type, customer |-> customer, mode |-> mode, sub |-> sub]

Events ==
  {Event("evt_co", "checkout.session.completed", "cus_1", "subscription", NoSub),
   Event("evt_sc", "customer.subscription.created", "cus_1", NULL,
         Sub("sub_m", "active", PRICE_ID_PREMIUM, 200, 2)),
   Event("evt_sd", "customer.subscription.deleted", "cus_1", NULL,
         Sub("sub_p", "canceled", PRICE_ID_PRO, 300, 3)),
   Event("evt_in", "invoice.payment_succeeded", "cus_1", NULL, NoSub),
   Event("evt_un", "customer.created", "cus_1", NULL, NoSub)}

\* Further events, delivered where a claim is about them
MoreEvents ==
  {Event("evt_cp", "checkout.session.completed", NULL, "payment", NoSub),
   Event("evt_c2", "checkout.session.completed", "cus_2", "payment", NoSub),
   Event("evt_if", "invoice.payment_failed", "cus_1", NULL, NoSub),
   Event("evt_su", "customer.subscription.updated", "cus_1", NULL,
         Sub("sub_b", "active", PRICE_ID_BABY, 100, 1))}

AllEvents == Events \cup MoreEvents

NoAmount == -1

\* s.amount_total of a checkout session
AmountTotal(e) ==
  CASE e.id = "evt_co" -> 2000
    [] e.id = "evt_cp" -> 500
    [] OTHER -> NoAmount

\* invoice.amount_paid and invoice.amount_due
AmountPaid(e) == IF e.id = "evt_in" THEN 2000 ELSE IF e.id = "evt_if" THEN 0 ELSE NoAmount
AmountDue(e) == IF e.type \in {"invoice.payment_succeeded", "invoice.payment_failed"}
                  THEN 2000 ELSE NoAmount

\* s.currency / invoice.currency
Currency(e) == IF e.id = "evt_c2" THEN NULL ELSE "usd"

\* a ?? b
Coalesce(a, b) == IF a # NoAmount THEN a ELSE b

NoEvent == Event(NULL, NULL, NULL, NULL, NoSub)

SubscriptionTypes ==
  {"customer.subscription.created", "customer.subscription.updated",
   "customer.subscription.deleted"}
InvoiceTypes == {"invoice.payment_succeeded", "invoice.payment_failed"}

Snapshot(status, price, periodEnd) ==
  [status |-> status, price |-> price, period_end |-> periodEnd]

FreeSnapshot == Snapshot(NULL, NULL, NoTime)

----------------------------------------------------------------------------
(* lib/subscription.ts *)

getPlanTier(priceId) ==
  IF priceId = NULL THEN "free"
  ELSE IF priceId = PRICE_ID_BABY THEN "baby"
  ELSE IF priceId = PRICE_ID_PREMIUM THEN "premium"
  ELSE IF priceId = PRICE_ID_PRO THEN "pro"
  ELSE "free"

getPlanTierPrioritySwapped(tier) ==
  CASE tier = "free" -> 0
    [] tier = "baby" -> 1
    [] tier = "premium" -> 3
    [] tier = "pro" -> 2
    [] OTHER -> 0

getPlanTierPriority(tier) ==
  CASE tier = "free" -> 0
    [] tier = "baby" -> 1
    [] tier = "premium" -> 2
    [] tier = "pro" -> 3
    [] OTHER -> 0

\* The callback of the reduce in getHighestPlanTier
HigherTier(highest, current) ==
  IF getPlanTierPriority(current) > getPlanTierPriority(highest) THEN current ELSE highest

RECURSIVE ReduceTiers(_, _, _)
ReduceTiers(tiers, i, highest) ==
  IF i > Len(tiers) THEN highest
  ELSE ReduceTiers(tiers, i + 1, HigherTier(highest, tiers[i]))

getHighestPlanTier(priceIds) ==
  IF Len(priceIds) = 0 THEN "free"
  ELSE LET tiers == [i \in DOMAIN priceIds |-> getPlanTier(priceIds[i])]
       IN ReduceTiers(tiers, 2, tiers[1])

isSubscriptionActive(status) == status = "active" \/ status = "trialing"

\* getSubscriptionInfo, of a profile row
getSubscriptionInfo(profile) ==
  [status |-> profile.subscription_status,
   planTier |-> getPlanTier(profile.subscription_price_id),
   priceId |-> profile.subscription_price_id,
   currentPeriodEnd |-> profile.subscription_current_period_end,
   isActive |-> isSubscriptionActive(profile.subscription_status)]

\* new Date(seconds * 1000).toISOString(), the instant held as epoch milliseconds
ToISOString(seconds) == seconds * 1000

\* currentPeriodEnd ? new Date(currentPeriodEnd * 1000).toISOString() : null
PeriodEndColumn(currentPeriodEnd) ==
  IF currentPeriodEnd # 0 THEN ToISOString(currentPeriodEnd) ELSE NoTime

----------------------------------------------------------------------------
(* The payment provider: stripe.subscriptions.list({customer, status: "active",
   limit: 10}) *)

Take(s, n) == IF Len(s) <= n THEN s ELSE SubSeq(s, 1, n)

StatusFilter(s) == s.status = "active"

ListActive(c) == Take(SelectSeq(subs[c], StatusFilter), ListLimit)

----------------------------------------------------------------------------
(* lib/subscription-sync.ts *)

\* The StripeSubscriptionInfo built by getActiveStripeSubscriptions
SubscriptionInfo(s) ==
  [id |-> s.id, status |-> s.status, priceId |-> s.price,
   currentPeriodEnd |-> s.current_period_end,
   tier |-> getPlanTier(s.price),
   priority |-> getPlanTierPriority(getPlanTier(s.price))]

InfoList(list) == [i \in DOMAIN list |-> SubscriptionInfo(list[i])]

ReduceLatest(highest, current) ==
  IF current.priority >= highest.priority THEN current ELSE highest

ReduceLower(highest, current) ==
  IF current.priority < highest.priority THEN current ELSE highest

\* The callback of the reduce in getHighestPrioritySubscription
ReduceHigher(highest, current) ==
  IF current.priority > highest.priority THEN current ELSE highest

RECURSIVE Reduce(_, _, _)
Reduce(infos, i, highest) ==
  IF i > Len(infos) THEN highest
  ELSE Reduce(infos, i + 1, ReduceHigher(highest, infos[i]))

\* Called on a non-empty list only (the empty list returns null in the code and is
\* handled by the caller before this point).
getHighestPrioritySubscription(infos) == Reduce(infos, 2, infos[1])

\* The columns syncSubscriptionToDatabase writes for the list it read
SyncSnapshot(list) ==
  IF Len(list) = 0 THEN FreeSnapshot
  ELSE LET h == getHighestPrioritySubscription(InfoList(list))
       IN Snapshot(h.status, h.priceId, PeriodEndColumn(h.currentPeriodEnd))

----------------------------------------------------------------------------
(* app/api/webhooks/stripe/route.ts: the inline ranking *)

WebhookTier(priceId) ==
  IF priceId = PRICE_ID_BABY THEN "baby"
  ELSE IF priceId = PRICE_ID_PREMIUM THEN "premium"
  ELSE IF priceId = PRICE_ID_PRO THEN "pro"
  ELSE "free"

WebhookPriority(tier) ==
  IF tier = "free" THEN 0
  ELSE IF tier = "baby" THEN 1
  ELSE IF tier = "premium" THEN 2
  ELSE 3

\* The comparator of the sort: priorityB - priorityA
Compare(a, b) ==
  WebhookPriority(WebhookTier(b.price)) - WebhookPriority(WebhookTier(a.price))

\* Array.prototype.sort is stable: x goes after every element it does not precede
RECURSIVE InsertSorted(_, _)
InsertSorted(sorted, x) ==
  IF Len(sorted) = 0 THEN <<x>>
  ELSE IF Compare(Head(sorted), x) <= 0
    THEN <<Head(sorted)>> \o InsertSorted(Tail(sorted), x)
    ELSE <<x>> \o sorted

RECURSIVE Sort(_)
Sort(list) ==
  IF Len(list) = 0 THEN <<>>
  ELSE InsertSorted(Sort(SubSeq(list, 1, Len(list) - 1)), list[Len(list)])

\* highestSubscription: the event's subscription unless the list is non-empty
HighestSubscription(list, sub) ==
  IF Len(list) > 0 THEN Sort(list)[1] ELSE sub

\* The columns the subscription handler writes
WebhookSnapshot(list, sub) ==
  LET h == HighestSubscription(list, sub)
  IN Snapshot(h.status, h.price, PeriodEndColumn(h.current_period_end))

----------------------------------------------------------------------------
(* The store: stripe_step_by_step_profiles and stripe_step_by_step_payments *)

Profile(customer, email, snap) ==
  [stripe_customer_id |-> customer, billing_email |-> email,
   subscription_status |-> snap.status,
   subscription_price_id |-> snap.price,
   subscription_current_period_end |-> snap.period_end]

\* A user id with no row in stripe_step_by_step_profiles: selects find nothing and
\* updates filtered on the id match nothing
NoRow ==
  [stripe_customer_id |-> NULL, billing_email |-> NULL, subscription_status |-> NULL,
   subscription_price_id |-> NULL, subscription_current_period_end |-> NoTime,
   absent |-> TRUE]

SnapshotOf(p) ==
  Snapshot(p.subscription_status, p.subscription_price_id,
           p.subscription_current_period_end)

UpdateSnapshotUnfiltered(ps, u, snap) ==
  [v \in Users |-> IF ps[v] = NoRow THEN ps[v]
                   ELSE [ps[v] EXCEPT !.subscription_status = snap.status,
                                      !.subscription_price_id = snap.price,
                                      !.subscription_current_period_end = snap.period_end]]

\* update({subscription_status, subscription_price_id,
\*         subscription_current_period_end}).eq("id", userId)
UpdateSnapshot(ps, u, snap) ==
  IF ps[u] = NoRow THEN ps
  ELSE [ps EXCEPT ![u] = [@ EXCEPT !.subscription_status = snap.status,
                                   !.subscription_price_id = snap.price,
                                   !.subscription_current_period_end = snap.period_end]]

\* update({stripe_customer_id, billing_email}).eq("id", supabaseUserId)
UpdateLink(ps, u, customer, email) ==
  IF ps[u] = NoRow THEN ps
  ELSE [ps EXCEPT ![u] = [@ EXCEPT !.stripe_customer_id = customer,
                                   !.billing_email = email]]

UsersOfAnyCustomer(c) == {u \in Users : profiles[u].stripe_customer_id \in {c, NULL}}

\* select("id").eq("stripe_customer_id", customerId).limit(1)
UsersOfCustomer(c) == {u \in Users : profiles[u].stripe_customer_id = c}

Row(eventId, userId, type, amount, currency) ==
  [stripe_event_id |-> eventId, user_id |-> userId, type |-> type,
   amount_total |-> amount, currency |-> currency]

RowsOf(eventId) == {r \in BagToSet(ledger) : r.stripe_event_id = eventId}

RECURSIVE SumCounts(_)
SumCounts(rows) ==
  IF rows = {} THEN 0
  ELSE LET r == CHOOSE x \in rows : TRUE
       IN CopiesIn(r, ledger) + SumCounts(rows \ {r})

RowCount(eventId) == SumCounts(RowsOf(eventId))

\* The payments table keeps stripe_event_id unique: a second row is refused.
InsertAccepted(eventId) == RowsOf(eventId) = {}

----------------------------------------------------------------------------
(* State *)

EventOf(id) == CHOOSE e \in AllEvents : e.id = id

\* One invocation of the route. pc is the await it is suspended at; sig, event,
\* userId, list and toWrite are its locals. seen is what the dedup select met,
\* calls the store and provider calls made so far, written the snapshot read back
\* right after its update, changed whether one of its updates altered a row,
\* listOk whether its subscriptions.list call returned, epoch how many provider-side
\* changes had happened when the request arrived,
\* insert the fate of its ledger insert, fault whether one of its calls failed.
IdleSlot ==
  [pc |-> "idle", sig |-> NULL, event |-> NULL, userId |-> NULL, list |-> <<>>,
   toWrite |-> FreeSnapshot, written |-> <<>>, changed |-> FALSE,
   resp |-> "none", calls |-> {}, fault |-> FALSE, redelivery |-> FALSE,
   seen |-> "none", listOk |-> TRUE, insert |-> "none", epoch |-> 0]

\* One call of forceSyncUserSubscription and the page load that made it, if any:
\* page is the position of the page, shown the subscription columns it is about to
\* render
IdleSync ==
  [pc |-> "idle", user |-> NULL, customer |-> NULL, list |-> <<>>,
   listOk |-> TRUE, written |-> <<>>, result |-> "none",
   page |-> "none", shown |-> <<>>]

\* One evaluation of the tier functions of lib/subscription.ts: the arguments and
\* the values returned
NoPlan ==
  [pc |-> "idle", priceId |-> NULL, priceIds |-> <<>>, tier |-> NULL, priority |-> 0,
   highest |-> NULL]

PriceIds == {PRICE_ID_BABY, PRICE_ID_PREMIUM, PRICE_ID_PRO, PRICE_ID_OTHER}

PlanInputs(max) ==
  {[NoPlan EXCEPT !.pc = "input", !.priceId = p, !.priceIds = l] :
     p \in PriceIds \cup {NULL}, l \in UNION {[1..n -> PriceIds] : n \in 0..max}}

\* One invocation of POST /api/checkout. pc is the await it is suspended at; user,
\* mode and customerId are its locals. held is whether the profile held a customer
\* id when the request read it, created and wrote whether the request created a
\* provider customer and upserted the profile, listed whether it called
\* subscriptions.list, list what that call returned, cancels the ids it passed to
\* subscriptions.cancel so far, atSession the value of cancels when it called
\* checkout.sessions.create, fault whether one of its calls failed.
IdleCheckout ==
  [pc |-> "idle", user |-> NULL, mode |-> NULL, customerId |-> NULL, held |-> FALSE,
   created |-> FALSE, wrote |-> FALSE, listed |-> FALSE, listOk |-> TRUE,
   list |-> <<>>, toCancel |-> <<>>, cancels |-> <<>>, atSession |-> <<>>,
   session |-> FALSE, resp |-> "none", fault |-> FALSE]

\* The checkout requests, the provider customers created so far for each user, and
\* the number of requests received
NoCheckout ==
  [req |-> [r \in Slots |-> IdleCheckout], created |-> [u \in Users |-> {}],
   started |-> 0]

\* The ids the provider gives to the customers it creates, in this order
NewCustomerIds == <<"cus_3", "cus_4", "cus_5", "cus_6">>

Fresh(customers1) ==
  {ps \in [Users -> {Profile(c, NULL, FreeSnapshot) : c \in Customers \cup {NULL}}] :
     /\ ps["u_1"].stripe_customer_id \in customers1
     /\ ps["u_2"].stripe_customer_id = NULL}

ProviderStates(max) ==
  {f \in [Customers -> UNION {ProviderLists(c, max) : c \in Customers}] :
     /\ f["cus_1"] \in ProviderLists("cus_1", max)
     /\ f["cus_2"] = <<>>}

Start(customers1, max) ==
  /\ profiles \in Fresh(customers1)
  /\ ledger = EmptyBag
  /\ subs \in ProviderStates(max)
  /\ slots = [d \in Slots |-> IdleSlot]
  /\ sync = IdleSync
  /\ completed = {}
  /\ delivered = 0
  /\ synced = 0
  /\ changes = 0
  /\ plan = NoPlan
  /\ checkout = NoCheckout

\* Users without and with a linked customer, any provider-side list
Init == Start({NULL, "cus_1"}, MaxSubs)

----------------------------------------------------------------------------
(* POST /api/webhooks/stripe *)

\* s.customer_details?.email of a checkout session
EmailOf(e) == IF e.type = "checkout.session.completed" THEN "payer@example.com" ELSE NULL

\* The switch on event.type: the first await of the branch
Dispatch(e) ==
  IF e.type = "checkout.session.completed"
    THEN IF e.customer # NULL THEN "retrieve" ELSE "insert"
  ELSE IF e.type \in SubscriptionTypes \cup InvoiceTypes THEN "lookup"
  ELSE "respond"

CatchSkipsInsert(step) == "respond"

CatchRethrow(step) ==
  IF step = "insert" THEN "respond"
  ELSE IF step = "update" THEN "throw"
  ELSE "insert"

\* Where the handler goes on when the awaited call of a step fails: every call is
\* inside its own try/catch (or returns its error), which logs and falls through
\* to the ledger insert of the branch; a failed insert falls through to the
\* response. "throw" would leave the switch for the outer catch.
Catch(step) ==
  IF step = "insert" THEN "respond" ELSE "insert"

Failed(slot, step) ==
  IF Catch(step) = "throw"
    THEN [slot EXCEPT !.pc = "done", !.resp = "500", !.fault = TRUE]
    ELSE [slot EXCEPT !.pc = Catch(step), !.fault = TRUE]

VerifyAnything(sig) == sig # "missing"

\* if (!sig) -> 400; constructEvent throws on a bad signature -> 400
Verify(sig) == sig = "valid"

\* A request carrying event e with signature header state sig
Request(d, E, max) ==
  /\ slots[d].pc = "idle"
  /\ delivered < max
  /\ \E e \in E, sig \in {"missing", "invalid", "valid"} :
       slots' = [slots EXCEPT ![d] =
                   IF Verify(sig)
                     THEN [IdleSlot EXCEPT !.pc = "dedup", !.sig = sig, !.event = e.id,
                                           !.redelivery = (e.id \in completed),
                                           !.epoch = changes]
                     ELSE [IdleSlot EXCEPT !.pc = "done", !.sig = sig, !.event = e.id,
                                           !.resp = "400"]]
  /\ delivered' = delivered + 1
  /\ UNCHANGED <<profiles, ledger, subs, sync, completed, synced, changes, plan, checkout>>

FoundNever(ok, eventId) == FALSE

\* existingEvent && existingEvent.length > 0; a failed select leaves data null
Found(ok, eventId) == ok /\ RowsOf(eventId) # {}

DedupCheck(d) ==
  /\ slots[d].pc = "dedup"
  /\ \E ok \in BOOLEAN :
       LET slot == [slots[d] EXCEPT !.calls = @ \cup {"ledger_select"},
                                    !.seen = IF ~ok THEN "failed"
                                             ELSE IF RowsOf(slots[d].event) # {} THEN "row"
                                             ELSE "absent"]
       IN IF Found(ok, slot.event)
            THEN /\ slots' = [slots EXCEPT ![d] = [slot EXCEPT !.pc = "done", !.resp = "200dup"]]
                 /\ completed' = completed \cup {slot.event}
            ELSE /\ slots' = [slots EXCEPT ![d] =
                                [slot EXCEPT !.pc = Dispatch(EventOf(slot.event)),
                                             !.fault = ~ok]]
                 /\ completed' = completed
  /\ UNCHANGED <<profiles, ledger, subs, sync, delivered, synced, changes, plan, checkout>>

\* stripe.customers.retrieve, the customer's metadata.supabase_user_id being one of
\* owners[customer]
Retrieve(d, owners) ==
  /\ slots[d].pc = "retrieve"
  /\ \E ok \in BOOLEAN : \E supabaseUserId \in owners[EventOf(slots[d].event).customer] :
       LET slot == [slots[d] EXCEPT !.calls = @ \cup {"customers.retrieve"}]
       IN slots' = [slots EXCEPT ![d] =
                      IF ok
                        THEN [slot EXCEPT !.userId = supabaseUserId,
                                          !.pc = IF supabaseUserId # NULL THEN "link" ELSE "insert"]
                        ELSE Failed(slot, "retrieve")]
  /\ UNCHANGED <<profiles, ledger, subs, sync, completed, delivered, synced, changes, plan, checkout>>

LinkProfile(d) ==
  /\ slots[d].pc = "link"
  /\ \E ok \in BOOLEAN :
       LET slot == [slots[d] EXCEPT !.calls = @ \cup {"profiles.update"}]
           e == EventOf(slot.event)
           ps == UpdateLink(profiles, slot.userId, e.customer, EmailOf(e))
       IN IF ok
            THEN /\ profiles' = ps
                 /\ slots' = [slots EXCEPT ![d] =
                                [slot EXCEPT !.pc = "insert", !.changed = @ \/ (ps # profiles)]]
            ELSE /\ slots' = [slots EXCEPT ![d] = Failed(slot, "link")]
                 /\ UNCHANGED profiles
  /\ UNCHANGED <<ledger, subs, sync, completed, delivered, synced, changes, plan, checkout>>

UserLookup(d) ==
  /\ slots[d].pc = "lookup"
  /\ \E ok \in BOOLEAN :
       LET slot == [slots[d] EXCEPT !.calls = @ \cup {"profiles.select"}]
           e == EventOf(slot.event)
           profs == UsersOfCustomer(e.customer)
       IN IF ok
            THEN \E u \in IF profs = {} THEN {NULL} ELSE profs :
                   slots' = [slots EXCEPT ![d] =
                               [slot EXCEPT !.userId = u,
                                            !.pc = IF e.type \in SubscriptionTypes /\ u # NULL
                                                     THEN "list" ELSE "insert"]]
            ELSE slots' = [slots EXCEPT ![d] = Failed(slot, "lookup")]
  /\ UNCHANGED <<profiles, ledger, subs, sync, completed, delivered, synced, changes, plan, checkout>>

ListSubscriptions(d) ==
  /\ slots[d].pc = "list"
  /\ \E ok \in BOOLEAN :
       LET slot == [slots[d] EXCEPT !.calls = @ \cup {"subscriptions.list"}]
           e == EventOf(slot.event)
           activeSubscriptions == ListActive(e.customer)
       IN slots' = [slots EXCEPT ![d] =
                      IF ok
                        THEN [slot EXCEPT !.list = activeSubscriptions,
                                          !.toWrite = WebhookSnapshot(activeSubscriptions, e.sub),
                                          !.pc = "update"]
                        ELSE [Failed(slot, "list") EXCEPT !.listOk = FALSE]]
  /\ UNCHANGED <<profiles, ledger, subs, sync, completed, delivered, synced, changes, plan, checkout>>

UpdateProfile(d) ==
  /\ slots[d].pc = "update"
  /\ \E ok \in BOOLEAN :
       LET slot == [slots[d] EXCEPT !.calls = @ \cup {"profiles.update"}]
           ps == UpdateSnapshot(profiles, slot.userId, slot.toWrite)
       IN IF ok
            THEN /\ profiles' = ps
                 /\ slots' = [slots EXCEPT ![d] =
                                [slot EXCEPT !.pc = "insert",
                                             !.written = <<SnapshotOf(ps[slot.userId])>>,
                                             !.changed = @ \/ (ps # profiles)]]
            ELSE /\ slots' = [slots EXCEPT ![d] = Failed(slot, "update")]
                 /\ UNCHANGED profiles
  /\ UNCHANGED <<ledger, subs, sync, completed, delivered, synced, changes, plan, checkout>>

LedgerRowCopied(slot) ==
  LET e == EventOf(slot.event)
  IN IF e.type = "checkout.session.completed"
       THEN Row(e.id, NULL, IF e.mode = "subscription" THEN "subscription" ELSE "one_time",
                AmountTotal(e), Currency(e))
     ELSE Row(e.id, slot.userId, "subscription", NoAmount, NULL)

\* The row each branch inserts; the checkout branch always writes user_id null
LedgerRow(slot) ==
  LET e == EventOf(slot.event)
  IN IF e.type = "checkout.session.completed"
       THEN Row(e.id, NULL, IF e.mode = "subscription" THEN "subscription" ELSE "one_time",
                AmountTotal(e), Currency(e))
     ELSE IF e.type \in SubscriptionTypes
       THEN Row(e.id, slot.userId, "subscription", NoAmount, NULL)
     ELSE Row(e.id, slot.userId, "invoice", Coalesce(AmountPaid(e), AmountDue(e)), Currency(e))

InsertLedger(d) ==
  /\ slots[d].pc = "insert"
  /\ \E ok \in BOOLEAN :
       LET slot == [slots[d] EXCEPT !.calls = @ \cup {"ledger_insert"}]
       IN IF ok /\ InsertAccepted(slot.event)
            THEN /\ ledger' = ledger (+) SetToBag({LedgerRow(slot)})
                 /\ slots' = [slots EXCEPT ![d] = [slot EXCEPT !.pc = "respond", !.insert = "ok"]]
            ELSE /\ ledger' = ledger
                 /\ slots' = [slots EXCEPT ![d] =
                                IF ok THEN [slot EXCEPT !.pc = "respond", !.insert = "rejected"]
                                      ELSE [Failed(slot, "insert") EXCEPT !.insert = "failed"]]
  /\ UNCHANGED <<profiles, subs, sync, completed, delivered, synced, changes, plan, checkout>>

\* return NextResponse.json({ received: true })
Respond(d) ==
  /\ slots[d].pc = "respond"
  /\ slots' = [slots EXCEPT ![d] = [@ EXCEPT !.pc = "done", !.resp = "200"]]
  /\ completed' = completed \cup {slots[d].event}
  /\ UNCHANGED <<profiles, ledger, subs, sync, delivered, synced, changes, plan, checkout>>

\* The invocation ends; the slot can take the next delivery
Reset(d) ==
  /\ slots[d].pc = "done"
  /\ slots' = [slots EXCEPT ![d] = IdleSlot]
  /\ UNCHANGED <<profiles, ledger, subs, sync, completed, delivered, synced, changes, plan, checkout>>

\* The metadata is the one written when the customer was created
RetrieveCustomer(d) == Retrieve(d, [c \in Customers |-> {CustomerMetadata(c)}])

\* The metadata is provider-side data: it may name any user, or none
RetrieveAny(d) == Retrieve(d, [c \in Customers |-> Users \cup {NULL}])

Receive(d) == Request(d, Events, MaxDeliveries)

SubscriptionEvents == {e \in Events : e.type \in SubscriptionTypes}

ReceiveSubscription(d) == Request(d, SubscriptionEvents, MaxReconcileDeliveries)

ReceiveCreated(d) == Request(d, {e \in Events : e.id = "evt_sc"}, MaxRaceDeliveries)

----------------------------------------------------------------------------
(* forceSyncUserSubscription, called by the dashboard and billing pages *)

SyncStart ==
  /\ sync.pc = "idle"
  /\ synced < MaxSyncs
  /\ \E u \in Users : sync' = [IdleSync EXCEPT !.pc = "profile", !.user = u]
  /\ synced' = synced + 1
  /\ UNCHANGED <<profiles, ledger, subs, slots, completed, delivered, changes, plan, checkout>>

\* select("stripe_customer_id").eq("id", userId).single()
SyncReadProfile ==
  /\ sync.pc = "profile"
  /\ \E ok \in BOOLEAN :
       LET customer == profiles[sync.user].stripe_customer_id
       IN sync' = IF ~ok \/ customer = NULL
                    THEN [sync EXCEPT !.pc = "done", !.result = "failed"]
                    ELSE [sync EXCEPT !.pc = "list", !.customer = customer]
  /\ UNCHANGED <<profiles, ledger, subs, slots, completed, delivered, synced, changes, plan, checkout>>

\* getActiveStripeSubscriptions: a failed list is logged and becomes []
SyncList ==
  /\ sync.pc = "list"
  /\ \E ok \in BOOLEAN :
       sync' = [sync EXCEPT !.pc = "update", !.listOk = ok,
                            !.list = IF ok THEN ListActive(sync.customer) ELSE <<>>]
  /\ UNCHANGED <<profiles, ledger, subs, slots, completed, delivered, synced, changes, plan, checkout>>

\* syncSubscriptionToDatabase: the update of either branch and the result
SyncUpdate ==
  /\ sync.pc = "update"
  /\ \E ok \in BOOLEAN :
       IF ok
         THEN /\ profiles' = UpdateSnapshot(profiles, sync.user, SyncSnapshot(sync.list))
              /\ sync' = [sync EXCEPT !.pc = "done", !.result = "success",
                                      !.written = <<SnapshotOf(profiles'[sync.user])>>]
         ELSE /\ sync' = [sync EXCEPT !.pc = "done", !.result = "failed"]
              /\ UNCHANGED profiles
  /\ UNCHANGED <<ledger, subs, slots, completed, delivered, synced, changes, plan, checkout>>

SyncReset ==
  /\ sync.pc = "done"
  /\ sync' = IdleSync
  /\ UNCHANGED <<profiles, ledger, subs, slots, completed, delivered, synced, changes, plan, checkout>>

----------------------------------------------------------------------------
(* app/dashboard/page.tsx and app/billing/page.tsx *)

NotSync == <<profiles, ledger, subs, slots, completed, delivered, changes, plan, checkout>>

\* The page reads the profile of the signed-in user; a failed read leaves profile
\* null, shown as the free state. With a stripe_customer_id the page calls
\* forceSyncUserSubscription.
PageLoad ==
  /\ sync.pc = "idle"
  /\ sync.page = "none"
  /\ synced < MaxPageLoads
  /\ \E u \in Users, ok \in BOOLEAN :
       LET found == ok /\ profiles[u] # NoRow
           linked == found /\ profiles[u].stripe_customer_id # NULL
       IN sync' = [IdleSync EXCEPT
                     !.user = u,
                     !.shown = <<IF found THEN SnapshotOf(profiles[u]) ELSE FreeSnapshot>>,
                     !.page = IF linked THEN "syncing" ELSE "render",
                     !.pc = IF linked THEN "profile" ELSE "idle"]
  /\ synced' = synced + 1
  /\ UNCHANGED NotSync

\* if (syncResult.success && syncResult.subscription): only then is the profile
\* fetched again
PageAfterSync ==
  /\ sync.page = "syncing"
  /\ sync.pc = "done"
  /\ sync' = [sync EXCEPT !.page = IF sync.result = "success" /\ Len(sync.list) > 0
                                     THEN "refetch" ELSE "render"]
  /\ UNCHANGED <<synced, NotSync>>

\* The second select; a failed read leaves updatedProfile null
PageRefetch ==
  /\ sync.page = "refetch"
  /\ \E ok \in BOOLEAN :
       sync' = [sync EXCEPT !.page = "render",
                            !.shown = <<IF ok THEN SnapshotOf(profiles[sync.user])
                                        ELSE FreeSnapshot>>]
  /\ UNCHANGED <<synced, NotSync>>

PageRender ==
  /\ sync.page = "render"
  /\ sync' = [sync EXCEPT !.page = "rendered"]
  /\ UNCHANGED <<synced, NotSync>>

PageReset ==
  /\ sync.page = "rendered"
  /\ sync' = IdleSync
  /\ UNCHANGED <<synced, NotSync>>

----------------------------------------------------------------------------
(* The provider's own state changes: a subscription is cancelled or created *)

ProviderCancel ==
  /\ changes < MaxProviderChanges
  /\ \E c \in Customers : \E i \in DOMAIN subs[c] :
       /\ subs[c][i].status # "canceled"
       /\ subs' = [subs EXCEPT ![c][i].status = "canceled"]
  /\ changes' = changes + 1
  /\ UNCHANGED <<profiles, ledger, slots, sync, completed, delivered, synced, plan, checkout>>

ProviderCreate ==
  /\ changes < MaxProviderChanges
  /\ \E c \in Customers : \E s \in SubPool(c) :
       /\ Len(subs[c]) < MaxRaceSubs + 1
       /\ \A i \in DOMAIN subs[c] : subs[c][i].id # s.id
       /\ subs' = [subs EXCEPT ![c] = <<s>> \o @]
  /\ changes' = changes + 1
  /\ UNCHANGED <<profiles, ledger, slots, sync, completed, delivered, synced, plan, checkout>>

----------------------------------------------------------------------------
(* Callers of lib/subscription.ts *)

PlanTier ==
  /\ plan.pc = "input"
  /\ plan' = [plan EXCEPT !.pc = "mapped",
                          !.tier = getPlanTier(plan.priceId),
                          !.priority = getPlanTierPriority(getPlanTier(plan.priceId))]
  /\ UNCHANGED <<profiles, ledger, subs, slots, sync, completed, delivered, synced, changes, checkout>>

HighestPlanTier ==
  /\ plan.pc = "mapped"
  /\ plan' = [plan EXCEPT !.pc = "done", !.highest = getHighestPlanTier(plan.priceIds)]
  /\ UNCHANGED <<profiles, ledger, subs, slots, sync, completed, delivered, synced, changes, checkout>>

----------------------------------------------------------------------------
(* POST /api/checkout *)

Others == <<profiles, ledger, subs, slots, sync, completed, delivered, synced, changes,
            plan>>

NotWebhook == <<ledger, slots, sync, completed, delivered, synced, changes, plan>>

\* user.email of the signed-in user
EmailOfUser(u) == IF u = "u_1" THEN "one@example.com" ELSE "two@example.com"

CleanupAlways(mode) == TRUE

\* if (mode === "subscription")
NeedsCleanup(mode) == mode = "subscription"

AfterCustomer(mode) == IF NeedsCleanup(mode) THEN "list" ELSE "session"

\* A failure thrown to the outer catch: handleApiError answers with the error
Thrown(req) == [req EXCEPT !.pc = "done", !.resp = "error", !.fault = TRUE]

\* A signed-in user posts a valid body
CheckoutRequest(r, max) ==
  /\ checkout.req[r].pc = "idle"
  /\ checkout.started < max
  /\ \E u \in Users, mode \in {"subscription", "payment"} :
       checkout' = [checkout EXCEPT
                      !.req[r] = [IdleCheckout EXCEPT !.pc = "read", !.user = u, !.mode = mode],
                      !.started = @ + 1]
  /\ UNCHANGED Others

CheckoutStart(r) == CheckoutRequest(r, MaxCheckouts)

CleanupStart(r) == CheckoutRequest(r, MaxCleanups)

\* getOrCreateCustomer 1): select("stripe_customer_id").eq("id", userId).single();
\* a row that is missing is an error of single()
CheckoutReadProfile(r) ==
  /\ checkout.req[r].pc = "read"
  /\ \E ok \in BOOLEAN :
       LET req == checkout.req[r]
           row == profiles[req.user]
           readErr == ~ok \/ row = NoRow
           held == row.stripe_customer_id # NULL
       IN checkout' = [checkout EXCEPT !.req[r] =
                         IF ~readErr /\ held
                           THEN [req EXCEPT !.held = held, !.customerId = row.stripe_customer_id,
                                            !.pc = AfterCustomer(req.mode)]
                           ELSE [req EXCEPT !.held = held, !.fault = ~ok, !.pc = "create"]]
  /\ UNCHANGED Others

\* getOrCreateCustomer 2): stripe.customers.create({email, metadata})
CheckoutCreateCustomer(r) ==
  /\ checkout.req[r].pc = "create"
  /\ \E ok \in BOOLEAN :
       LET req == checkout.req[r]
           n == Cardinality(UNION {checkout.created[u] : u \in Users})
           id == NewCustomerIds[n + 1]
       IN checkout' = IF ok
                        THEN [checkout EXCEPT
                                !.req[r] = [req EXCEPT !.created = TRUE, !.customerId = id,
                                                       !.pc = "upsert"],
                                !.created[req.user] = @ \cup {id}]
                        ELSE [checkout EXCEPT !.req[r] = Thrown(req)]
  /\ UNCHANGED Others

\* getOrCreateCustomer 3): upsert({id, stripe_customer_id, billing_email, and the
\* three snapshot columns null}); if (upsertErr) throw
CheckoutUpsert(r) ==
  /\ checkout.req[r].pc = "upsert"
  /\ \E ok \in BOOLEAN :
       LET req == checkout.req[r]
       IN IF ok
            THEN /\ profiles' = [profiles EXCEPT ![req.user] =
                                   Profile(req.customerId, EmailOfUser(req.user), FreeSnapshot)]
                 /\ checkout' = [checkout EXCEPT !.req[r] =
                                   [req EXCEPT !.wrote = TRUE, !.pc = AfterCustomer(req.mode)]]
            ELSE /\ checkout' = [checkout EXCEPT !.req[r] = Thrown(req)]
                 /\ UNCHANGED profiles
  /\ UNCHANGED <<subs, NotWebhook>>

\* stripe.subscriptions.list({customer, status: "active", limit: 10}) of the cleanup;
\* a customer just created has no subscription
CheckoutList(r) ==
  /\ checkout.req[r].pc = "list"
  /\ \E ok \in BOOLEAN :
       LET req == checkout.req[r]
           existingSubscriptions ==
             IF req.customerId \in Customers THEN ListActive(req.customerId) ELSE <<>>
       IN checkout' = [checkout EXCEPT !.req[r] =
                         IF ok
                           THEN [req EXCEPT !.listed = TRUE, !.list = existingSubscriptions,
                                            !.toCancel = existingSubscriptions,
                                            !.pc = IF Len(existingSubscriptions) > 0
                                                     THEN "cancel" ELSE "session"]
                           ELSE [req EXCEPT !.listed = TRUE, !.listOk = FALSE, !.fault = TRUE,
                                            !.pc = "session"]]
  /\ UNCHANGED Others

\* The provider's subscriptions.cancel(id)
Cancelled(list, id) ==
  [i \in DOMAIN list |-> IF list[i].id = id THEN [list[i] EXCEPT !.status = "canceled"]
                         ELSE list[i]]

\* One turn of the loop: stripe.subscriptions.cancel(subscription.id); a failure is
\* logged and the loop goes on
CheckoutCancel(r) ==
  /\ checkout.req[r].pc = "cancel"
  /\ \E ok \in BOOLEAN :
       LET req == checkout.req[r]
           subscription == Head(req.toCancel)
           rest == Tail(req.toCancel)
       IN /\ checkout' = [checkout EXCEPT !.req[r] =
                            [req EXCEPT !.cancels = Append(@, subscription.id),
                                        !.toCancel = rest,
                                        !.fault = @ \/ ~ok,
                                        !.pc = IF Len(rest) > 0 THEN "cancel" ELSE "session"]]
          /\ subs' = IF ok THEN [subs EXCEPT ![req.customerId] = Cancelled(@, subscription.id)]
                     ELSE subs
  /\ UNCHANGED <<profiles, NotWebhook>>

\* stripe.checkout.sessions.create; the answer is the session url, or the error
CheckoutSession(r) ==
  /\ checkout.req[r].pc = "session"
  /\ \E ok \in BOOLEAN :
       LET req == [checkout.req[r] EXCEPT !.session = TRUE, !.atSession = checkout.req[r].cancels]
       IN checkout' = [checkout EXCEPT !.req[r] =
                         IF ok THEN [req EXCEPT !.pc = "done", !.resp = "url"]
                               ELSE Thrown(req)]
  /\ UNCHANGED Others

\* The request ends; the slot can take the next one
CheckoutReset(r) ==
  /\ checkout.req[r].pc = "done"
  /\ checkout' = [checkout EXCEPT !.req[r] = IdleCheckout]
  /\ UNCHANGED Others

----------------------------------------------------------------------------

\* One delivery at a time, every event type
Next ==
  \/ Receive(1)
  \/ DedupCheck(1)
  \/ RetrieveCustomer(1)
  \/ LinkProfile(1)
  \/ UserLookup(1)
  \/ ListSubscriptions(1)
  \/ UpdateProfile(1)
  \/ InsertLedger(1)
  \/ Respond(1)
  \/ Reset(1)

Spec == Init /\ [][Next]_vars

\* Reconciliation by the subscription handler and by the Sync Trigger, interleaved
NextReconcile ==
  \/ ReceiveSubscription(1)
  \/ DedupCheck(1)
  \/ UserLookup(1)
  \/ ListSubscriptions(1)
  \/ UpdateProfile(1)
  \/ InsertLedger(1)
  \/ Respond(1)
  \/ Reset(1)
  \/ SyncStart
  \/ SyncReadProfile
  \/ SyncList
  \/ SyncUpdate
  \/ SyncReset

InitReconcile == Start({"cus_1"}, MaxSubs)

SpecReconcile == InitReconcile /\ [][NextReconcile]_vars

\* Concurrent deliveries of subscription events while the provider state changes
InitRace == Start({"cus_1"}, MaxRaceSubs)

NextRace ==
  \/ \E d \in Slots :
       \/ ReceiveCreated(d)
       \/ DedupCheck(d)
       \/ UserLookup(d)
       \/ ListSubscriptions(d)
       \/ UpdateProfile(d)
       \/ InsertLedger(d)
       \/ Respond(d)
       \/ Reset(d)
  \/ ProviderCancel
  \/ ProviderCreate

SpecRace == InitRace /\ [][NextRace]_vars

\* Two subscription handlers for the same customer, triggered by any of the three
\* lifecycle events, while the provider state may change
LifecycleEvents == {e \in AllEvents : e.type \in SubscriptionTypes}

ReceiveLifecycle(d) == Request(d, LifecycleEvents, MaxTwiceDeliveries)

NextTwice ==
  \/ \E d \in Slots :
       \/ ReceiveLifecycle(d)
       \/ DedupCheck(d)
       \/ UserLookup(d)
       \/ ListSubscriptions(d)
       \/ UpdateProfile(d)
       \/ InsertLedger(d)
       \/ Respond(d)
       \/ Reset(d)
  \/ ProviderCancel
  \/ ProviderCreate

SpecTwice == InitRace /\ [][NextTwice]_vars

\* Reconciliation by both paths for a customer holding subscriptions of equal tier
InitTie ==
  /\ profiles \in Fresh({"cus_1"})
  /\ ledger = EmptyBag
  /\ subs \in {f \in [Customers -> ListsOver(TiePool, MaxTieSubs)] : f["cus_2"] = <<>>}
  /\ slots = [d \in Slots |-> IdleSlot]
  /\ sync = IdleSync
  /\ completed = {}
  /\ delivered = 0
  /\ synced = 0
  /\ changes = 0
  /\ plan = NoPlan
  /\ checkout = NoCheckout

SpecTie == InitTie /\ [][NextReconcile]_vars

\* Checkout completion followed by a subscription event, for users with and without
\* a profile row and a customer whose metadata may name either user
InitLink ==
  /\ profiles \in {ps \in [Users -> {NoRow, Profile(NULL, NULL, FreeSnapshot),
                                      Profile("cus_1", NULL, FreeSnapshot)}] :
                     ps["u_2"] = Profile(NULL, NULL, FreeSnapshot)}
  /\ ledger = EmptyBag
  /\ subs \in ProviderStates(MaxLinkSubs)
  /\ slots = [d \in Slots |-> IdleSlot]
  /\ sync = IdleSync
  /\ completed = {}
  /\ delivered = 0
  /\ synced = 0
  /\ changes = 0
  /\ plan = NoPlan
  /\ checkout = NoCheckout

ReceiveLink(d) ==
  Request(d, {e \in Events : e.id \in {"evt_co", "evt_sc"}}, MaxLinkDeliveries)

NextLink ==
  \/ ReceiveLink(1)
  \/ DedupCheck(1)
  \/ RetrieveAny(1)
  \/ LinkProfile(1)
  \/ UserLookup(1)
  \/ ListSubscriptions(1)
  \/ UpdateProfile(1)
  \/ InsertLedger(1)
  \/ Respond(1)
  \/ Reset(1)

SpecLink == InitLink /\ [][NextLink]_vars

\* The branches that only record: checkout completion and invoice outcome
InitRecord ==
  /\ profiles \in {ps \in [Users -> {Profile(NULL, NULL, FreeSnapshot),
                                      Profile("cus_1", NULL,
                                              Snapshot("active", PRICE_ID_BABY, 100000))}] :
                     ps["u_2"] = Profile(NULL, NULL, FreeSnapshot)}
  /\ ledger = EmptyBag
  /\ subs = [c \in Customers |-> <<>>]
  /\ slots = [d \in Slots |-> IdleSlot]
  /\ sync = IdleSync
  /\ completed = {}
  /\ delivered = 0
  /\ synced = 0
  /\ changes = 0
  /\ plan = NoPlan
  /\ checkout = NoCheckout

RecordEvents ==
  {e \in AllEvents : e.type \in {"checkout.session.completed"} \cup InvoiceTypes}

ReceiveRecord(d) == Request(d, RecordEvents, MaxRecordDeliveries)

NextRecord ==
  \/ ReceiveRecord(1)
  \/ DedupCheck(1)
  \/ RetrieveCustomer(1)
  \/ LinkProfile(1)
  \/ UserLookup(1)
  \/ InsertLedger(1)
  \/ Respond(1)
  \/ Reset(1)

SpecRecord == InitRecord /\ [][NextRecord]_vars

\* Checkout requests of signed-in users, two at a time, for users with and without a
\* profile row and a linked customer
InitCheckout ==
  /\ profiles \in {ps \in [Users -> {NoRow, Profile(NULL, NULL, FreeSnapshot),
                                      Profile("cus_1", NULL, FreeSnapshot)}] :
                     ps["u_2"] = Profile(NULL, NULL, FreeSnapshot)}
  /\ ledger = EmptyBag
  /\ subs \in ProviderStates(MaxCheckoutSubs)
  /\ slots = [d \in Slots |-> IdleSlot]
  /\ sync = IdleSync
  /\ completed = {}
  /\ delivered = 0
  /\ synced = 0
  /\ changes = 0
  /\ plan = NoPlan
  /\ checkout = NoCheckout

NextCheckout ==
  \E r \in Slots :
    \/ CheckoutStart(r)
    \/ CheckoutReadProfile(r)
    \/ CheckoutCreateCustomer(r)
    \/ CheckoutUpsert(r)
    \/ CheckoutList(r)
    \/ CheckoutCancel(r)
    \/ CheckoutSession(r)
    \/ CheckoutReset(r)

SpecCheckout == InitCheckout /\ [][NextCheckout]_vars

\* One checkout request at a time, for customers with several active subscriptions
InitCleanup ==
  /\ profiles \in {ps \in [Users -> {NoRow, Profile(NULL, NULL, FreeSnapshot),
                                      Profile("cus_1", NULL, FreeSnapshot)}] :
                     ps["u_2"] = Profile(NULL, NULL, FreeSnapshot)}
  /\ ledger = EmptyBag
  /\ subs \in ProviderStates(MaxCleanupSubs)
  /\ slots = [d \in Slots |-> IdleSlot]
  /\ sync = IdleSync
  /\ completed = {}
  /\ delivered = 0
  /\ synced = 0
  /\ changes = 0
  /\ plan = NoPlan
  /\ checkout = NoCheckout

NextCleanup ==
  \/ CleanupStart(1)
  \/ CheckoutReadProfile(1)
  \/ CheckoutCreateCustomer(1)
  \/ CheckoutUpsert(1)
  \/ CheckoutList(1)
  \/ CheckoutCancel(1)
  \/ CheckoutSession(1)
  \/ CheckoutReset(1)

SpecCleanup == InitCleanup /\ [][NextCleanup]_vars

\* Page loads of users whose profile holds a snapshot of an earlier reconciliation
InitPage ==
  /\ profiles \in {ps \in [Users -> {Profile(NULL, NULL, FreeSnapshot),
                                      Profile("cus_1", NULL, FreeSnapshot),
                                      Profile("cus_1", NULL,
                                              Snapshot("active", PRICE_ID_BABY, 100000))}] :
                     ps["u_2"] = Profile(NULL, NULL, FreeSnapshot)}
  /\ ledger = EmptyBag
  /\ subs \in ProviderStates(MaxPageSubs)
  /\ slots = [d \in Slots |-> IdleSlot]
  /\ sync = IdleSync
  /\ completed = {}
  /\ delivered = 0
  /\ synced = 0
  /\ changes = 0
  /\ plan = NoPlan
  /\ checkout = NoCheckout

NextPage ==
  \/ PageLoad
  \/ SyncReadProfile
  \/ SyncList
  \/ SyncUpdate
  \/ PageAfterSync
  \/ PageRefetch
  \/ PageRender
  \/ PageReset

SpecPage == InitPage /\ [][NextPage]_vars

\* The tier functions on every price id and every list of price ids
InitTier ==
  /\ profiles \in Fresh({NULL})
  /\ ledger = EmptyBag
  /\ subs = [c \in Customers |-> <<>>]
  /\ slots = [d \in Slots |-> IdleSlot]
  /\ sync = IdleSync
  /\ completed = {}
  /\ delivered = 0
  /\ synced = 0
  /\ changes = 0
  /\ plan \in PlanInputs(MaxPriceIds)
  /\ checkout = NoCheckout

NextTier ==
  \/ PlanTier
  \/ HighestPlanTier

SpecTier == InitTier /\ [][NextTier]_vars

----------------------------------------------------------------------------
(* Properties *)

Rank(price) ==
  CASE price = PRICE_ID_BABY -> 1
    [] price = PRICE_ID_PREMIUM -> 2
    [] price = PRICE_ID_PRO -> 3
    [] OTHER -> 0

IsActive(s) == s.status = "active"

IsActiveLike(s) == s.status \in {"active", "trialing"}

ActiveAt(c) == SelectSeq(subs[c], IsActive)

ActiveLikeAt(c) == SelectSeq(subs[c], IsActiveLike)

ColumnsOf(s) ==
  Snapshot(s.status, s.price,
           IF s.current_period_end = 0 THEN NoTime ELSE 1000 * s.current_period_end)

TakenFromHighest(snap, list) ==
  \E i \in DOMAIN list :
    /\ snap = ColumnsOf(list[i])
    /\ \A j \in DOMAIN list : Rank(list[i].price) >= Rank(list[j].price)

Finished(d) == slots[d].pc = "done"

CustomerOf(d) == EventOf(slots[d].event).customer

\* C1: delivering a verified event id again, after its first delivery completed,
\* leaves the profile rows as they were and exactly one ledger row with that id.
C1_Idempotent ==
  \A d \in Slots :
    (Finished(d) /\ slots[d].sig = "valid" /\ slots[d].redelivery)
      => (~slots[d].changed /\ RowCount(slots[d].event) = 1)

C3_NoActiveIsFree ==
  /\ \A d \in Slots :
       (slots[d].written # <<>> /\ Len(ActiveLikeAt(CustomerOf(d))) = 0)
         => slots[d].written[1] = FreeSnapshot
  /\ (sync.written # <<>> /\ Len(ActiveLikeAt(sync.customer)) = 0)
       => sync.written[1] = FreeSnapshot

\* C4: for the same provider-side state, the subscription handler and
\* forceSyncUserSubscription persist the same snapshot for the linked user.
C4_PathsAgree ==
  \A d \in Slots :
    (slots[d].written # <<>> /\ sync.written # <<>> /\ sync.listOk
       /\ slots[d].userId = sync.user)
      => slots[d].written[1] = sync.written[1]

\* C5: a reconciliation whose live read of the subscriptions failed writes nothing
\* to the profile and reports failure (webhook handler and sync).
C5_ProviderFailureKeepsSnapshot ==
  /\ \A d \in Slots :
       ~slots[d].listOk => (slots[d].written = <<>> /\ ~slots[d].changed)
  /\ ~sync.listOk => (sync.written = <<>> /\ sync.result # "success")

\* C6: a request whose signature header is missing or does not verify is answered
\* 400 at once: no dedup lookup, no provider call, no profile write, no ledger insert.
C6_SignatureRejection ==
  \A d \in Slots :
    (slots[d].pc # "idle" /\ slots[d].sig # "valid")
      => /\ slots[d].pc = "done"
         /\ slots[d].resp = "400"
         /\ slots[d].calls = {}
         /\ ~slots[d].changed
         /\ slots[d].insert = "none"

C6_Witness ==
  \E d \in Slots :
    /\ slots[d].sig = "invalid"
    /\ slots[d].resp = "400"
    /\ slots[d].event = "evt_sc"
    /\ RowsOf("evt_sc") = {}
    /\ delivered = MaxDeliveries

\* C7: a verified event whose id the dedup select finds in the ledger is answered
\* 200 {received, duplicate} with no customer retrieve, no subscription list, no
\* profile write and no ledger insert.
C7_DuplicateShortCircuit ==
  \A d \in Slots :
    slots[d].seen = "row"
      => /\ slots[d].pc = "done"
         /\ slots[d].resp = "200dup"
         /\ slots[d].calls = {"ledger_select"}
         /\ ~slots[d].changed
         /\ slots[d].insert = "none"

C7_Witness ==
  \E d \in Slots :
    /\ slots[d].seen = "row"
    /\ slots[d].resp = "200dup"
    /\ slots[d].event = "evt_sc"
    /\ RowCount("evt_sc") = 1

\* C8: of two concurrent deliveries of one event id that both saw no ledger row,
\* one ledger row exists, and the effects of the one whose insert was refused are
\* discarded: the profile holds what the delivery whose insert succeeded wrote.
C8_RaceLoserDiscarded ==
  \A a, b \in Slots :
    (/\ a # b
     /\ slots[a].event = slots[b].event
     /\ slots[a].seen = "absent" /\ slots[b].seen = "absent"
     /\ slots[a].written # <<>>
     /\ slots[a].insert = "ok" /\ slots[b].insert = "rejected")
      => /\ RowCount(slots[a].event) = 1
         /\ SnapshotOf(profiles[slots[a].userId]) = slots[a].written[1]

\* C9: every verified, non-duplicate event answered after dispatch has a ledger row
\* with its event id, whatever handler it went to, unless the store failed the insert.
C9_AuditUnconditional ==
  \A d \in Slots :
    (Finished(d) /\ slots[d].resp = "200" /\ slots[d].insert # "failed")
      => RowsOf(slots[d].event) # {}

\* C10: once the signature verified and the dedup select found no row, the only
\* response is 200 {received: true}, whichever downstream call failed.
C10_ResponsePolicy ==
  \A d \in Slots :
    slots[d].seen = "absent"
      => /\ slots[d].resp \in {"none", "200"}
         /\ Finished(d) => slots[d].resp = "200"

C10_Witness ==
  \E d \in Slots :
    /\ Finished(d)
    /\ slots[d].seen = "absent"
    /\ slots[d].resp = "200"
    /\ slots[d].event = "evt_sd"
    /\ slots[d].userId = "u_1"
    /\ slots[d].listOk
    /\ "profiles.update" \in slots[d].calls
    /\ slots[d].written = <<>>
    /\ slots[d].insert = "failed"

PlanTiers == {"free", "baby", "premium", "pro"}

TierNamed(rank) ==
  CASE rank = 1 -> "baby"
    [] rank = 2 -> "premium"
    [] rank = 3 -> "pro"
    [] OTHER -> "free"

\* C18: getPlanTier sends every price id, null and unconfigured ids included, to one
\* of free, baby, premium, pro, null and unconfigured ids to free;
\* getPlanTierPriority orders them free=0 < baby=1 < premium=2 < pro=3; and
\* getHighestPlanTier returns free for the empty list and otherwise the tier of a
\* listed price that no listed price outranks.
C18_TierMappingTotalOrdered ==
  /\ plan.pc \in {"mapped", "done"}
       => /\ plan.tier \in PlanTiers
          /\ plan.tier = TierNamed(Rank(plan.priceId))
          /\ plan.priceId \in {NULL, PRICE_ID_OTHER} => plan.tier = "free"
          /\ plan.priority = Rank(plan.priceId)
  /\ plan.pc = "done"
       => IF Len(plan.priceIds) = 0
            THEN plan.highest = "free"
            ELSE \E i \in DOMAIN plan.priceIds :
                   /\ plan.highest = TierNamed(Rank(plan.priceIds[i]))
                   /\ \A j \in DOMAIN plan.priceIds :
                        Rank(plan.priceIds[i]) >= Rank(plan.priceIds[j])

C18_Witness ==
  /\ plan.pc = "done"
  /\ plan.priceId = PRICE_ID_OTHER
  /\ plan.tier = "free"
  /\ plan.priceIds = <<PRICE_ID_BABY, PRICE_ID_PRO, PRICE_ID_PREMIUM>>
  /\ plan.highest = "pro"

Unlinked(c) == \A u \in Users : profiles[u].stripe_customer_id # c

\* C11: a subscription event whose customer matches no profile, once the user lookup
\* has returned, leads to no subscriptions.list call and no profile write, is
\* answered 200 {received: true}, and its ledger row carries user_id null.
C11_UnresolvedCustomer ==
  \A d \in Slots :
    (/\ slots[d].pc \in {"list", "update", "insert", "respond", "done"}
     /\ slots[d].userId = NULL
     /\ EventOf(slots[d].event).type \in SubscriptionTypes
     /\ "profiles.select" \in slots[d].calls
     /\ Unlinked(CustomerOf(d)))
      => /\ slots[d].pc \in {"insert", "respond", "done"}
         /\ "subscriptions.list" \notin slots[d].calls
         /\ "profiles.update" \notin slots[d].calls
         /\ ~slots[d].changed
         /\ slots[d].resp \in {"none", "200"}
         /\ Finished(d) => (slots[d].resp = "200" /\ slots[d].insert # "none")
         /\ slots[d].insert \in {"ok", "rejected"}
              => RowsOf(slots[d].event)
                   \subseteq {r \in BagToSet(ledger) : r.user_id = NULL /\ r.type = "subscription"}
         /\ slots[d].insert = "ok" => RowCount(slots[d].event) = 1

C11_Witness ==
  \E d \in Slots :
    /\ Finished(d)
    /\ slots[d].event = "evt_sc"
    /\ Unlinked("cus_1")
    /\ ~slots[d].fault
    /\ slots[d].insert = "ok"
    /\ slots[d].resp = "200"
    /\ \E r \in RowsOf("evt_sc") : r.user_id = NULL

C13_LinkThenReconcile ==
  \A d \in Slots :
    /\ (Finished(d) /\ slots[d].event = "evt_co" /\ slots[d].userId = "u_1"
          /\ ~slots[d].fault /\ slots[d].seen = "absent")
         => profiles["u_1"].stripe_customer_id = "cus_1"
    /\ (Finished(d) /\ slots[d].event = "evt_sc" /\ slots[d].userId = "u_1"
          /\ ~slots[d].fault /\ slots[d].seen = "absent"
          /\ ActiveAt("cus_1") = <<Sub("sub_m", "active", PRICE_ID_PREMIUM, 200, 2)>>)
         => SnapshotOf(profiles["u_1"]) = Snapshot("active", PRICE_ID_PREMIUM, 200000)

TypeOf(d) == EventOf(slots[d].event).type

SnapshotsKept == \A u \in Users : SnapshotOf(profiles'[u]) = SnapshotOf(profiles[u])

\* C14: handling invoice.payment_succeeded or invoice.payment_failed changes no
\* profile column; it makes no call but the dedup select, the user lookup and the
\* ledger insert, and the row inserted is of type invoice with the resolved user id
\* (or null), the amount and the currency of the invoice.
C14_InvoiceInformational ==
  \A d \in Slots :
    (slots[d].sig = "valid" /\ TypeOf(d) \in InvoiceTypes)
      => /\ ~slots[d].changed
         /\ slots[d].written = <<>>
         /\ slots[d].calls \subseteq {"ledger_select", "profiles.select", "ledger_insert"}
         /\ slots[d].userId # NULL
              => profiles[slots[d].userId].stripe_customer_id = CustomerOf(d)
         /\ slots[d].insert = "ok"
              => /\ RowCount(slots[d].event) = 1
                 /\ RowsOf(slots[d].event) =
                      {[stripe_event_id |-> slots[d].event, user_id |-> slots[d].userId,
                        type |-> "invoice",
                        amount_total |-> IF slots[d].event = "evt_in" THEN 2000 ELSE 0,
                        currency |-> "usd"]}

C14_Witness ==
  \E d \in Slots :
    /\ Finished(d)
    /\ slots[d].event = "evt_if"
    /\ slots[d].userId = "u_1"
    /\ slots[d].insert = "ok"
    /\ SnapshotOf(profiles["u_1"]) = Snapshot("active", PRICE_ID_BABY, 100000)
    /\ \E r \in RowsOf("evt_if") : r.type = "invoice" /\ r.user_id = "u_1"
    /\ RowsOf("evt_in") # {}

CheckoutRecorded ==
  \A d \in Slots :
    (slots[d].sig = "valid" /\ TypeOf(d) = "checkout.session.completed")
      => /\ slots[d].written = <<>>
         /\ (Finished(d) /\ slots[d].seen # "row") => slots[d].insert # "none"
         /\ slots[d].insert = "ok"
              => /\ RowCount(slots[d].event) = 1
                 /\ \A r \in RowsOf(slots[d].event) :
                      /\ r.user_id = NULL
                      /\ r.type = IF slots[d].event = "evt_co" THEN "subscription"
                                  ELSE "one_time"

\* C15: handling checkout.session.completed always reaches the ledger insert, with
\* type subscription for a subscription-mode session and one_time otherwise, whether
\* the customer reference is absent, the customer retrieve fails, the metadata names
\* no user or the profile update fails; and no step changes a profile's status,
\* price id or period end.
C15_CheckoutAlwaysRecords == []CheckoutRecorded /\ [][SnapshotsKept]_vars

C15_Witness ==
  \E d \in Slots :
    /\ Finished(d)
    /\ slots[d].event = "evt_c2"
    /\ slots[d].userId = NULL
    /\ "customers.retrieve" \in slots[d].calls
    /\ slots[d].insert = "ok"
    /\ \E r \in RowsOf("evt_c2") : r.type = "one_time"
    /\ \E r \in RowsOf("evt_co") : r.type = "subscription"
    /\ profiles["u_1"] = Profile("cus_1", "payer@example.com", FreeSnapshot)

\* C16: a forceSyncUserSubscription call in which something failed (no linked
\* customer, profile read error, provider error, profile write error) returns
\* success = false and has written nothing to the profile.
C16_SyncDegrades ==
  (sync.pc = "done" /\ (~sync.listOk \/ sync.result = "failed"))
    => (sync.result = "failed" /\ sync.written = <<>>)

\* C17: two reconciliations of the same user by handlers of two distinct events,
\* against a provider state that did not change, leave the same snapshot: the
\* profile holds what each of them wrote.
C17_ReconcileIdempotent ==
  \A a, b \in Slots :
    (/\ a # b
     /\ changes = 0
     /\ Finished(a) /\ Finished(b)
     /\ slots[a].event # slots[b].event
     /\ slots[a].written # <<>> /\ slots[b].written # <<>>
     /\ slots[a].userId = slots[b].userId)
      => SnapshotOf(profiles[slots[a].userId]) = slots[a].written[1]

Derived(snap, c) ==
  IF Len(ActiveAt(c)) = 0 THEN snap = FreeSnapshot
  ELSE TakenFromHighest(snap, ActiveAt(c))

\* C19: when no handler is in flight and a handler triggered after the last
\* provider-side change has completed its write, the persisted snapshot is the one
\* derived from the provider's state, whatever the interleaving of the handlers
\* of distinct events was.
C19_Converges ==
  \A a \in Slots :
    (/\ \A d \in Slots : slots[d].pc \in {"idle", "done"}
     /\ \A d \in Slots : d # a => slots[d].event # slots[a].event
     /\ \A d \in Slots : slots[d].written # <<>> => Len(slots[d].list) > 0
     /\ Finished(a)
     /\ slots[a].epoch = changes
     /\ slots[a].written # <<>>
     /\ Len(ActiveAt(CustomerOf(a))) > 0)
      => Derived(SnapshotOf(profiles[slots[a].userId]), CustomerOf(a))

\* C20: for one provider state and one resolved user, the snapshot the subscription
\* handler derives is the same whichever lifecycle event triggered it and whatever
\* subscription its payload carries.
C20_EventIndependent ==
  \A a, b \in Slots :
    (/\ a # b
     /\ changes = 0
     /\ slots[a].userId # NULL
     /\ slots[a].userId = slots[b].userId
     /\ "subscriptions.list" \in slots[a].calls /\ slots[a].listOk
     /\ "subscriptions.list" \in slots[b].calls /\ slots[b].listOk)
      => slots[a].toWrite = slots[b].toWrite

OnlyTrialing(c) == Len(subs[c]) = 1 /\ subs[c][1].status = "trialing"

\* C21: a reconciliation that wrote the profile of a customer whose only provider
\* subscription is trialing persisted that subscription's status, price id and period
\* end (webhook handler and sync).
C21_TrialingCounts ==
  /\ \A d \in Slots :
       (slots[d].written # <<>> /\ slots[d].listOk /\ OnlyTrialing(CustomerOf(d)))
         => slots[d].written[1] = ColumnsOf(subs[CustomerOf(d)][1])
  /\ (sync.written # <<>> /\ sync.listOk /\ OnlyTrialing(sync.customer))
       => sync.written[1] = ColumnsOf(subs[sync.customer][1])

\* The active subscription of maximal tier and, among those, of latest creation
LatestOfHighest(snap, list) ==
  \E i \in DOMAIN list :
    /\ snap = ColumnsOf(list[i])
    /\ \A j \in DOMAIN list :
         \/ Rank(list[i].price) > Rank(list[j].price)
         \/ Rank(list[i].price) = Rank(list[j].price) /\ list[i].created >= list[j].created

\* C22: a reconciliation that read a non-empty list of active subscriptions persisted,
\* among the subscriptions of maximal tier priority, the one created last, in
\* whatever order the provider returned them (webhook handler and sync).
C22_TieBreakLatest ==
  /\ \A d \in Slots :
       (slots[d].written # <<>> /\ Len(slots[d].list) > 0)
         => LatestOfHighest(slots[d].written[1], slots[d].list)
  /\ (sync.written # <<>> /\ Len(sync.list) > 0)
       => LatestOfHighest(sync.written[1], sync.list)

\* C23: a subscription or invoice event whose customer matches no profile, once the
\* user lookup has returned, has the provider customer retrieved, and is handled for
\* the user its metadata names; only a customer whose metadata names nobody is left
\* unresolved.
C23_IdentityFallback ==
  \A d \in Slots :
    (/\ slots[d].pc \in {"list", "update", "insert", "respond", "done"}
     /\ TypeOf(d) \in SubscriptionTypes \cup InvoiceTypes
     /\ "profiles.select" \in slots[d].calls
     /\ ~slots[d].fault
     /\ Unlinked(CustomerOf(d)))
      => /\ "customers.retrieve" \in slots[d].calls
         /\ slots[d].userId = CustomerMetadata(CustomerOf(d))

\* C24: a verified request whose dedup select failed is rejected: it ends with an
\* error response, having made no other call, changed no profile and inserted no
\* ledger row.
C24_DedupFailureRejects ==
  \A d \in Slots :
    slots[d].seen = "failed"
      => /\ slots[d].pc = "done"
         /\ slots[d].resp \in {"400", "500"}
         /\ slots[d].calls = {"ledger_select"}
         /\ ~slots[d].changed
         /\ slots[d].insert = "none"

LinkOf(p) == <<p.stripe_customer_id, p.billing_email>>

\* A step that changes a profile row is the update of a handler that resolved that
\* row's user
WritesOwnRow ==
  \A u \in Users :
    profiles'[u] # profiles[u]
      => \E d \in Slots :
           /\ slots[d].pc \in {"link", "update"}
           /\ slots'[d].pc # slots[d].pc
           /\ slots[d].userId = u
           /\ TypeOf(d) \in SubscriptionTypes
                => /\ profiles[u].stripe_customer_id = CustomerOf(d)
                   /\ LinkOf(profiles'[u]) = LinkOf(profiles[u])
           /\ TypeOf(d) = "checkout.session.completed"
                => u = CustomerMetadata(CustomerOf(d))
           /\ TypeOf(d) \in SubscriptionTypes \cup {"checkout.session.completed"}

\* C25: every step of the webhook route that changes a profile row changes only the
\* row of the user resolved for the event (the holder of the event's customer for a
\* subscription event, the user named in the customer's metadata for a checkout
\* event), and a subscription event leaves stripe_customer_id and billing_email of
\* every row as they were.
C25_WriteIsolation == [][WritesOwnRow]_vars

C25_Witness ==
  /\ Finished(1)
  /\ slots[1].event = "evt_sc"
  /\ slots[1].changed
  /\ slots[1].written # <<>>
  /\ profiles["u_1"].stripe_customer_id = "cus_1"
  /\ profiles["u_1"].billing_email = "payer@example.com"
  /\ profiles["u_1"].subscription_status = "active"
  /\ profiles["u_2"] = Profile(NULL, NULL, FreeSnapshot)

\* C26: for one non-empty list of active subscriptions, the subscription handler and
\* the sync select the same subscription and persist the same status, price id and
\* period end.
C26_SameWinner ==
  \A d \in Slots :
    (/\ slots[d].written # <<>>
     /\ sync.written # <<>>
     /\ slots[d].userId = sync.user
     /\ Len(slots[d].list) > 0
     /\ slots[d].list = sync.list)
      => /\ slots[d].written[1] = sync.written[1]
         /\ Sort(slots[d].list)[1].id = getHighestPrioritySubscription(InfoList(sync.list)).id
         /\ slots[d].written[1] = ColumnsOf(Sort(slots[d].list)[1])

C26_Witness ==
  /\ slots[1].written # <<>>
  /\ sync.written # <<>>
  /\ slots[1].list = <<Sub("sub_m", "active", PRICE_ID_PREMIUM, 200, 2),
                       Sub("sub_n", "active", PRICE_ID_PREMIUM, 500, 5)>>
  /\ sync.list = slots[1].list
  /\ slots[1].written[1] = Snapshot("active", PRICE_ID_PREMIUM, 200000)
  /\ sync.written[1] = Snapshot("active", PRICE_ID_PREMIUM, 200000)

\* C27: the subscription info derived from any profile row has isActive true whenever
\* its planTier is not free; so a profile reconciled after its customer's last
\* subscription was cancelled derives the free tier.
C27_PaidImpliesActive ==
  \A u \in Users :
    getSubscriptionInfo(profiles[u]).planTier # "free"
      => getSubscriptionInfo(profiles[u]).isActive

\* C28: with no call failing, the checkout requests of one user create one provider
\* customer at most, under every interleaving; and a request that read a profile
\* holding a customer id creates no customer and writes no profile.
C28_OneCustomerPerUser ==
  (\A r \in Slots : ~checkout.req[r].fault)
    => /\ \A u \in Users : Cardinality(checkout.created[u]) <= 1
       /\ \A r \in Slots :
            (checkout.req[r].pc \notin {"idle", "read"} /\ checkout.req[r].held)
              => (~checkout.req[r].created /\ ~checkout.req[r].wrote)

IdsOf(list) == [i \in DOMAIN list |-> list[i].id]

\* C29: a checkout request in mode subscription lists the customer's active
\* subscriptions and passes each of them to subscriptions.cancel once before it
\* creates the session; a failed list or a failed cancel does not end the request,
\* the remaining cancels and the session creation follow; with no failure no active
\* subscription is left; a request in mode payment lists and cancels nothing.
C29_CancelsBeforeSession ==
  \A r \in Slots :
    LET q == checkout.req[r]
    IN /\ q.mode = "payment" => (~q.listed /\ q.cancels = <<>>)
       /\ (q.session /\ q.mode = "subscription")
            => /\ q.listed
               /\ q.atSession = q.cancels
               /\ q.listOk => q.cancels = IdsOf(q.list)
               /\ ~q.listOk => q.cancels = <<>>
               /\ (~q.fault /\ q.customerId \in Customers)
                    => Len(ListActive(q.customerId)) = 0
       /\ (q.pc = "done" /\ q.listed) => q.session
       /\ (q.pc = "done" /\ q.resp = "url") => q.session

C29_Witness ==
  LET q == checkout.req[1]
  IN /\ q.pc = "done"
     /\ q.resp = "url"
     /\ q.mode = "subscription"
     /\ q.customerId = "cus_1"
     /\ Len(q.list) = 2
     /\ q.atSession = IdsOf(q.list)
     /\ q.fault
     /\ Len(ListActive("cus_1")) = 1

\* C30: a page whose forceSyncUserSubscription call returned success renders the
\* snapshot that call persisted, the free snapshot included.
C30_PageShowsSynced ==
  (sync.page = "rendered" /\ sync.result = "success" /\ sync.listOk /\ sync.written # <<>>)
    => sync.shown[1] = sync.written[1]

====
